---- MODULE Spec2Model ----
(***************************************************************************)
(* A model of easyibmq (src/easyibmq.py) and of its example driver         *)
(* (src/main.py): the client-side orchestration of a batch of circuits on  *)
(* a remote queue-based service.  The public entry points execute_jobs and *)
(* query_backend_name are modelled step by step, one action per call the   *)
(* code makes on a collaborator (IBMQ, the provider, the process pool, the *)
(* chooser, transpile, the job manager, the job monitor, the managed       *)
(* results).  The collaborators are the environment: what they answer is   *)
(* chosen nondeterministically among the answers the code distinguishes.   *)
(*                                                                         *)
(* Strings are sequences of one-character strings, so that the f-string of *)
(* _get_backend_info, str.endswith and str.split are computed character by *)
(* character.  The lines PrintTimer prints are not modelled.               *)
(***************************************************************************)
EXTENDS Integers, Sequences, FiniteSets, TLC

\* ------------------------------------------------------------------ bounds
MaxItems == 2       \* longest list of circuits passed to execute_jobs
MaxBackends == 2    \* most backends the provider enumerates
MaxJobs == 2        \* most remote jobs one batch is split into
MaxCalls == 2       \* calls of the public entry points in one run

\* ----------------------------------------------------------------- strings
NL == "\n"

Min(a, b) == IF a <= b THEN a ELSE b

Range(s) == {s[k] : k \in 1..Len(s)}

\* str.endswith(suffix)
EndsWith(s, suffix) ==
    /\ Len(suffix) <= Len(s)
    /\ SubSeq(s, Len(s) - Len(suffix) + 1, Len(s)) = suffix

\* str.split('\n')[0]: the text before the first line break
FirstLine(s) ==
    IF \E k \in 1..Len(s) : s[k] = NL
    THEN LET k == CHOOSE j \in 1..Len(s) :
                      s[j] = NL /\ \A m \in 1..(j - 1) : s[m] # NL
         IN SubSeq(s, 1, k - 1)
    ELSE s

\* str(n) of a small natural number
Digits == <<"0", "1", "2", "3", "4", "5", "6", "7", "8", "9">>

RECURSIVE IntToStr(_)
IntToStr(n) ==
    IF n < 10 THEN <<Digits[n + 1]>>
    ELSE IntToStr(n \div 10) \o <<Digits[(n % 10) + 1]>>

\* the characters of the model in code-point order, for Python's comparison of str
CodePoints == <<NL, " ", "0", "1", "2", "3", "4", "5", "6", "7", "8", "9",
                "_", "a", "b", "c", "d", "e", "i", "l", "m", "q", "r", "s",
                "t", "u", "x", "z">>

Ord(c) == CHOOSE k \in 1..Len(CodePoints) : CodePoints[k] = c

\* a < b for two str
RECURSIVE StrLess(_, _)
StrLess(a, b) ==
    IF b = <<>> THEN FALSE
    ELSE IF a = <<>> THEN TRUE
    ELSE IF a[1] # b[1] THEN Ord(a[1]) < Ord(b[1])
    ELSE StrLess(Tail(a), Tail(b))

\* sorted(l): into increasing order of str
RECURSIVE InsertLex(_, _)
InsertLex(x, l) ==
    IF l = <<>> THEN <<x>>
    ELSE IF StrLess(x, l[1]) THEN <<x>> \o l
    ELSE <<l[1]>> \o InsertLex(x, Tail(l))

RECURSIVE SortedLex(_)
SortedLex(l) ==
    IF l = <<>> THEN <<>>
    ELSE InsertLex(l[Len(l)], SortedLex(SubSeq(l, 1, Len(l) - 1)))

\* sorted(l, key=len): stable, so equal lengths keep their order
RECURSIVE InsertLen(_, _)
InsertLen(x, l) ==
    IF l = <<>> THEN <<x>>
    ELSE IF Len(x) < Len(l[1]) THEN <<x>> \o l
    ELSE <<l[1]>> \o InsertLen(x, Tail(l))

RECURSIVE SortedLen(_)
SortedLen(l) ==
    IF l = <<>> THEN <<>>
    ELSE InsertLen(l[Len(l)], SortedLen(SubSeq(l, 1, Len(l) - 1)))

\* ' '.join(l)
RECURSIVE JoinSpace(_)
JoinSpace(l) ==
    IF l = <<>> THEN <<>>
    ELSE IF Len(l) = 1 THEN l[1]
    ELSE l[1] \o <<" ">> \o JoinSpace(Tail(l))

\* ------------------------------------------------- the remote service
\* What a backend answers to status(), properties() and configuration().
\* properties() of a simulator is None, so .qubits raises AttributeError;
\* has_basis_gates = FALSE is a configuration without the basis_gates attribute.
BackendA ==
    [name |-> <<"a">>, pending_jobs |-> 12, has_properties |-> TRUE, qubits |-> 5,
     has_basis_gates |-> TRUE, basis_gates |-> <<<<"r", "z">>, <<"x">>, <<"i", "d">>, <<"c", "x">>>>]

BackendSim ==
    [name |-> <<"s">>, pending_jobs |-> 0, has_properties |-> FALSE, qubits |-> 0,
     has_basis_gates |-> TRUE, basis_gates |-> <<<<"u", "1">>, <<"c", "x">>>>]

BackendNoGates ==
    [name |-> <<"t">>, pending_jobs |-> 1, has_properties |-> TRUE, qubits |-> 1,
     has_basis_gates |-> FALSE, basis_gates |-> <<>>]

BackendBreak ==
    [name |-> <<"a", NL, "b">>, pending_jobs |-> 2, has_properties |-> TRUE, qubits |-> 7,
     has_basis_gates |-> TRUE, basis_gates |-> <<<<"i", "d">>>>]

Backends == {BackendA, BackendSim, BackendNoGates, BackendBreak}

NoBackend ==
    [name |-> <<>>, pending_jobs |-> 0, has_properties |-> FALSE, qubits |-> 0,
     has_basis_gates |-> FALSE, basis_gates |-> <<>>]

\* provider.backends(): the backends the provider enumerates, each once
Directories ==
    UNION {{d \in [1..n -> Backends] : \A j, k \in 1..n : j # k => d[j] # d[k]} :
           n \in 0..MaxBackends}

\* the circuits of the model, not yet transpiled for a backend, and the lists
\* of them a caller passes
Circuit == {[circ |-> "c1", backend |-> <<>>], [circ |-> "c2", backend |-> <<>>]}

CircuitLists == UNION {[1..n -> Circuit] : n \in 0..MaxItems}

\* the job sets IBMQJobManager.run may hand back for n experiments: an ordered
\* split of the n experiments into at most MaxJobs jobs, each of at least one
RECURSIVE SumSeq(_)
SumSeq(f) == IF f = <<>> THEN 0 ELSE f[1] + SumSeq(Tail(f))

JobSetsFor(n) ==
    {f \in UNION {[1..k -> 1..n] : k \in 0..Min(n, MaxJobs)} : SumSeq(f) = n}

TerminalStates == {"DONE", "ERROR", "CANCELLED"}

\* ------------------------------------------------------------ the texts
S_queued == <<" ", "q", "u", "e", "u", "e", "d">>
S_qubits == <<" ", "q", "u", "b", "i", "t", "s">>
S_simulated == <<"s", "i", "m", "u", "l", "a", "t", "e", "d">>
\* the argument of endswith in query_backend_name: '\nsimulated qubits'
SimulatedSuffix == <<NL>> \o S_simulated \o S_qubits

MsgNoActiveBackend == "No active backend was found"
MsgMustChoose == "You must choose a backend"
MsgNoSuchBackend == "No such backend name: "
MsgAuthFailed == "Failed to authenticate IBMQ account. This might solve:"
MsgRegister == "1. register in quantum-computing.ibm.com/"
MsgSaveAccount == "2. Execute once IBMQ.save_account(\"token\") on your machine"
MsgRaw == "str(e)"

\* the simulated branch of _get_backend_info: qubit_count = "simulated", gates = ''
SimulatedInfo == [qubit_count |-> S_simulated, gates |-> <<>>]

\* the try block of _get_backend_info: AttributeError at either query gives the
\* except branch, which sets both qubit_count and gates
CapabilityInfoKeepsQubits(backend) ==
    IF backend.has_properties
    THEN [qubit_count |-> IntToStr(backend.qubits),
          gates |-> IF backend.has_basis_gates
                    THEN JoinSpace(SortedLen(SortedLex(backend.basis_gates)))
                    ELSE <<>>]
    ELSE SimulatedInfo

CapabilityInfo(backend) ==
    IF backend.has_properties /\ backend.has_basis_gates
    THEN [qubit_count |-> IntToStr(backend.qubits),
          gates |-> JoinSpace(SortedLen(SortedLex(backend.basis_gates)))]
    ELSE SimulatedInfo

\* f"{backend.name()}\n\n{pending_jobs} queued\n{qubit_count} qubits\n{gates}"
Render(name, pending_jobs, info) ==
    name \o <<NL, NL>> \o IntToStr(pending_jobs) \o S_queued \o <<NL>>
         \o info.qubit_count \o S_qubits \o <<NL>> \o info.gates

_get_backend_info(backend) ==
    Render(backend.name, backend.pending_jobs, CapabilityInfo(backend))

\* the filter of query_backend_name: keep x unless x.endswith('\nsimulated qubits')
KeepChoice(x) == ~EndsWith(x, SimulatedSuffix)

FilterChoices(choices, hide_simulated) ==
    IF hide_simulated THEN SelectSeq(choices, KeepChoice) ELSE choices

\* transpile(circuits, backend=backend), one circuit: opaque, kept as a term
TranspileOne(c, backend) == [circ |-> c.circ, backend |-> backend.name]

\* the counts the managed results hold for experiment i (0-based) of the
\* submitted list, and dict(...) of them
CountsOf(submitted, i) == [kind |-> "dict", exp |-> i, of |-> submitted[i + 1]]

\* the marker appended when the data of an experiment is not available
NoneValue == [kind |-> "None", exp |-> -1, of |-> [circ |-> "", backend |-> <<>>]]

\* --------------------------------------------------------------- state
VARIABLES
    pc,            \* where the running call stands ("idle": no call is running)
    fn,            \* the public entry point called last
    nested,        \* query_backend_name is running inside execute_jobs
    calls,         \* calls made so far in the run
    session,       \* IBMQ.active_account(): 0 is no account, n > 0 the n-th loaded
    args,          \* the arguments of the call
    circuits,      \* execute_jobs: the local circuits
    backend_name,  \* execute_jobs: the local backend_name ([given, name])
    backend,       \* execute_jobs: the local backend
    directory,     \* query_backend_name: the local backends
    pool,          \* the tasks of p.map, one per backend: [st, value]
    choices,       \* query_backend_name: the local choices
    job_set,       \* the jobs of the managed job set: [size, status]
    avail,         \* the experiments whose data the managed results hold
    hists,         \* execute_jobs: the local hists
    i,             \* execute_jobs: the loop index
    out,           \* the lines printed by the call
    ops,           \* the calls made on collaborators by the call, in order
    outcome,       \* how the last call ended
    ensureLog      \* one entry per account step of execute_jobs, over the run

vars == <<pc, fn, nested, calls, session, args, circuits, backend_name, backend,
          directory, pool, choices, job_set, avail, hists, i, out, ops, outcome,
          ensureLog>>

queryLocals == <<directory, pool, choices>>
jobLocals == <<job_set, avail, hists, i>>

NoName == [given |-> FALSE, name |-> <<>>]

NoOutcome == [kind |-> "none", exc |-> "", msg |-> <<>>, hists |-> <<>>, name |-> <<>>]

Returned(h, n) == [kind |-> "returned", exc |-> "", msg |-> <<>>, hists |-> h, name |-> n]

Raised(e, m) == [kind |-> "raised", exc |-> e, msg |-> m, hists |-> <<>>, name |-> <<>>]

Op(o, a) == [op |-> o, arg |-> a]

\* the arguments a caller may pass to execute_jobs
CircuitsArgs ==
    {[single |-> TRUE, cs |-> <<c>>] : c \in Circuit}
        \cup {[single |-> FALSE, cs |-> l] : l \in CircuitLists}

BackendNameArgs ==
    {NoName} \cup {[given |-> TRUE, name |-> n] : n \in {<<"a">>, <<"s">>, <<"z">>}}

ExecuteArgs ==
    [circuits : CircuitsArgs, backend_name : BackendNameArgs, hide_simulated : BOOLEAN,
     monitor : BOOLEAN, force_account_reload : BOOLEAN]

QueryArgs ==
    [circuits : {[single |-> FALSE, cs |-> <<>>]}, backend_name : {NoName},
     hide_simulated : BOOLEAN, monitor : {FALSE}, force_account_reload : {FALSE}]

NoArgs ==
    [circuits |-> [single |-> FALSE, cs |-> <<>>], backend_name |-> NoName,
     hide_simulated |-> FALSE, monitor |-> FALSE, force_account_reload |-> FALSE]

Init ==
    /\ pc = "idle"
    /\ fn = "none"
    /\ nested = FALSE
    /\ calls = 0
    /\ session = 0
    /\ args = NoArgs
    /\ circuits = <<>>
    /\ backend_name = NoName
    /\ backend = NoBackend
    /\ directory = <<>>
    /\ pool = <<>>
    /\ choices = <<>>
    /\ job_set = <<>>
    /\ avail = {}
    /\ hists = <<>>
    /\ i = 0
    /\ out = <<>>
    /\ ops = <<>>
    /\ outcome = NoOutcome
    /\ ensureLog = <<>>

\* a call starts
StartCall(f, a) ==
    /\ pc = "idle"
    /\ calls < MaxCalls
    /\ calls' = calls + 1
    /\ fn' = f
    /\ args' = a
    /\ backend_name' = a.backend_name
    /\ UNCHANGED <<nested, backend, queryLocals, jobLocals, out, ops, outcome>>

\* the call ends: it returns a value or raises
Finish(o) ==
    /\ pc' = "done"
    /\ outcome' = o

\* the caller goes on: the frame of the ended call is gone
CallerContinues ==
    /\ pc = "done"
    /\ pc' = "idle"
    /\ nested' = FALSE
    /\ args' = NoArgs
    /\ circuits' = <<>>
    /\ backend_name' = NoName
    /\ backend' = NoBackend
    /\ directory' = <<>>
    /\ pool' = <<>>
    /\ choices' = <<>>
    /\ job_set' = <<>>
    /\ avail' = {}
    /\ hists' = <<>>
    /\ i' = 0
    /\ out' = <<>>
    /\ ops' = <<>>
    /\ outcome' = NoOutcome
    /\ UNCHANGED <<fn, calls, session, ensureLog>>

\* execute_jobs is called; a single circuit is wrapped into a list
execute_jobs(a) ==
    /\ StartCall("execute_jobs", a)
    /\ circuits' = a.circuits.cs
    /\ pc' = "ex_account"
    /\ UNCHANGED <<session, ensureLog>>

ExecuteCall == \E a \in ExecuteArgs : execute_jobs(a)

\* the account step of execute_jobs: IBMQ.load_account() unless an account is
\* active and no reload is forced.  load_account succeeds, raises an
\* IBMQAccountError (which is wrapped in a RuntimeError with the two steps that
\* might solve it) or raises anything else (which is not caught).  A failed
\* load never leaves a new account; it may have disabled the one in use.
NeedsLoadIgnoresForce == session = 0

NeedsLoadAlways == TRUE

NeedsLoad == args.force_account_reload \/ session = 0

LogEntry(attempts, result, after) ==
    [force |-> args.force_account_reload, before |-> session, attempts |-> attempts,
     result |-> result, after |-> after]

\* the account loaded by the n-th call of the run is account n
NextSessionId == calls

\* the log keeps the last two account steps
Logged(e) == IF Len(ensureLog) < 2 THEN Append(ensureLog, e) ELSE <<ensureLog[2], e>>

AccountErrorMessage == <<MsgRaw, MsgAuthFailed, MsgRegister, MsgSaveAccount>>

\* if backend_name is None: query_backend_name, then _get_backend_by_name
AfterAccountSkipsResolve == "ex_transpile"

AfterAccountAlwaysQueries == "q_provider"

AfterAccount == IF backend_name.given THEN "ex_resolve" ELSE "q_provider"

AccountReused ==
    /\ pc = "ex_account"
    /\ ~NeedsLoad
    /\ ensureLog' = Logged(LogEntry(0, "reused", session))
    /\ pc' = AfterAccount
    /\ nested' = ~backend_name.given
    /\ UNCHANGED <<fn, calls, session, args, circuits, backend_name, backend,
                   queryLocals, jobLocals, out, ops, outcome>>

AccountLoaded ==
    /\ pc = "ex_account"
    /\ NeedsLoad
    /\ ops' = Append(ops, Op("load_account", -1))
    /\ session' = NextSessionId
    /\ ensureLog' = Logged(LogEntry(1, "ok", NextSessionId))
    /\ pc' = AfterAccount
    /\ nested' = ~backend_name.given
    /\ UNCHANGED <<fn, calls, args, circuits, backend_name, backend,
                   queryLocals, jobLocals, out, outcome>>

AccountFailed ==
    /\ pc = "ex_account"
    /\ NeedsLoad
    /\ ops' = Append(ops, Op("load_account", -1))
    /\ \E after \in {session, 0}, e \in {"IBMQAccountError", "Other"} :
          /\ session' = after
          /\ ensureLog' = Logged(LogEntry(1, e, after))
          /\ IF e = "IBMQAccountError"
             THEN Finish(Raised("RuntimeError", AccountErrorMessage))
             ELSE Finish(Raised("Other", <<MsgRaw>>))
    /\ UNCHANGED <<fn, nested, calls, args, circuits, backend_name, backend,
                   queryLocals, jobLocals, out>>

\* ---------------------------------------------------- query_backend_name
query_backend_name(a) ==
    /\ StartCall("query_backend_name", a)
    /\ circuits' = <<>>
    /\ pc' = "q_provider"
    /\ UNCHANGED <<session, ensureLog>>

QueryCall == \E a \in QueryArgs : query_backend_name(a)

\* IBMQ.get_provider("ibm-q") raises: always when no account is loaded
ProviderFails ==
    /\ pc = "q_provider"
    /\ ops' = Append(ops, Op("get_provider", -1))
    /\ Finish(Raised("Other", <<MsgRaw>>))
    /\ UNCHANGED <<fn, nested, calls, session, args, circuits, backend_name, backend,
                   queryLocals, jobLocals, out, ensureLog>>

\* provider.backends() raises
BackendsFails ==
    /\ pc = "q_provider"
    /\ session # 0
    /\ ops' = ops \o <<Op("get_provider", -1), Op("backends", -1)>>
    /\ Finish(Raised("Other", <<MsgRaw>>))
    /\ UNCHANGED <<fn, nested, calls, session, args, circuits, backend_name, backend,
                   queryLocals, jobLocals, out, ensureLog>>

\* the provider enumerates its backends and the pool gets one task for each
\* (at: the position of the task in the order of completion, 0 while it runs)
PoolTasks(d) == [k \in 1..Len(d) |-> [st |-> "todo", at |-> 0, value |-> <<>>]]

\* the number of tasks of the pool that have ended
Ended(p) == Cardinality({k \in 1..Len(p) : p[k].st # "todo"})

BackendsListed ==
    /\ pc = "q_provider"
    /\ session # 0
    /\ \E d \in Directories :
          /\ directory' = d
          /\ pool' = PoolTasks(d)
    /\ ops' = ops \o <<Op("get_provider", -1), Op("backends", -1), Op("Pool", -1)>>
    /\ pc' = "q_pool"
    /\ UNCHANGED <<fn, nested, calls, session, args, circuits, backend_name, backend,
                   choices, jobLocals, out, outcome, ensureLog>>

\* a worker of the pool runs _get_backend_info on one backend
WorkerDone(k) ==
    /\ pc = "q_pool"
    /\ pool[k].st = "todo"
    /\ pool' = [pool EXCEPT ![k] = [st |-> "done", at |-> Ended(pool) + 1,
                                    value |-> _get_backend_info(directory[k])]]
    /\ UNCHANGED <<pc, fn, nested, calls, session, args, circuits, backend_name, backend,
                   directory, choices, jobLocals, out, ops, outcome, ensureLog>>

\* a worker fails: backend.status() raises, or anything but AttributeError
WorkerFailed(k) ==
    /\ pc = "q_pool"
    /\ pool[k].st = "todo"
    /\ pool' = [pool EXCEPT ![k] = [st |-> "failed", at |-> Ended(pool) + 1, value |-> <<>>]]
    /\ UNCHANGED <<pc, fn, nested, calls, session, args, circuits, backend_name, backend,
                   directory, choices, jobLocals, out, ops, outcome, ensureLog>>

Worker == \E k \in 1..Len(pool) : WorkerDone(k) \/ WorkerFailed(k)

\* list(p.map(_get_backend_info, backends)): the values in the order of
\* backends (and not, as imap_unordered would give them, in the order in which
\* the workers ended)
MapValuesUnordered(p) ==
    [n \in 1..Len(p) |-> p[CHOOSE k \in 1..Len(p) : p[k].at = n].value]

MapValues(p) == [k \in 1..Len(p) |-> p[k].value]

\* p.map returns once every task has ended, and raises if one failed; then the
\* choices are filtered and an empty list raises LookupError
PoolJoin ==
    /\ pc = "q_pool"
    /\ \A k \in 1..Len(pool) : pool[k].st # "todo"
    /\ IF \E k \in 1..Len(pool) : pool[k].st = "failed"
       THEN /\ Finish(Raised("Other", <<MsgRaw>>))
            /\ UNCHANGED choices
       ELSE LET cs == FilterChoices(MapValues(pool), args.hide_simulated)
            IN /\ choices' = cs
               /\ IF Len(cs) = 0
                  THEN Finish(Raised("LookupError", <<MsgNoActiveBackend>>))
                  ELSE pc' = "q_prompt" /\ UNCHANGED outcome
    /\ UNCHANGED <<fn, nested, calls, session, args, circuits, backend_name, backend,
                   directory, pool, jobLocals, out, ops, ensureLog>>

\* easygui.buttonbox returns None: no choice was made (the call is logged with
\* the position of the choice made, 0 for none)
PromptDeclined ==
    /\ pc = "q_prompt"
    /\ ops' = Append(ops, Op("buttonbox", 0))
    /\ Finish(Raised("LookupError", <<MsgMustChoose>>))
    /\ UNCHANGED <<fn, nested, calls, session, args, circuits, backend_name, backend,
                   queryLocals, jobLocals, out, ensureLog>>

\* the name query_backend_name returns for a choice; inside execute_jobs its
\* locals are gone once it has returned
ChosenNameWholeChoice(choice) == choice

ChosenName(choice) == FirstLine(choice)

\* easygui.buttonbox returns one of the choices
PromptChosen ==
    /\ pc = "q_prompt"
    /\ \E c \in 1..Len(choices) :
          /\ ops' = Append(ops, Op("buttonbox", c))
          /\ IF nested
             THEN /\ backend_name' = [given |-> TRUE, name |-> ChosenName(choices[c])]
                  /\ pc' = "ex_resolve"
                  /\ directory' = <<>>
                  /\ pool' = <<>>
                  /\ choices' = <<>>
                  /\ UNCHANGED outcome
             ELSE /\ Finish(Returned(<<>>, ChosenName(choices[c])))
                  /\ UNCHANGED <<backend_name, queryLocals>>
    /\ UNCHANGED <<fn, nested, calls, session, args, circuits, backend,
                   jobLocals, out, ensureLog>>

\* ------------------------------------------------- execute_jobs, continued
\* provider.get_backend(name) over the backends d of the provider: the backend
\* of that name, or QiskitError, which _get_backend_by_name turns into LookupError
GetBackendNeverRaises(d, name) ==
    [found |-> TRUE,
     backend |-> IF \E k \in 1..Len(d) : d[k].name = name
                 THEN d[CHOOSE k \in 1..Len(d) : d[k].name = name]
                 ELSE NoBackend]

_get_backend_by_name(d, name) ==
    IF \E k \in 1..Len(d) : d[k].name = name
    THEN [found |-> TRUE, backend |-> d[CHOOSE k \in 1..Len(d) : d[k].name = name]]
    ELSE [found |-> FALSE, backend |-> NoBackend]

\* the backends the provider knows when get_backend is called
ProviderBackends == Directories

\* the call of get_backend is logged with the provider's answer: 1 if it knows
\* the name, 0 if it raised QiskitError
Knows(d, name) == IF \E k \in 1..Len(d) : d[k].name = name THEN 1 ELSE 0

Resolve ==
    /\ pc = "ex_resolve"
    /\ \E d \in ProviderBackends :
          LET r == _get_backend_by_name(d, backend_name.name)
          IN /\ ops' = ops \o <<Op("get_provider", -1),
                                Op("get_backend", Knows(d, backend_name.name))>>
             /\ IF r.found
                THEN /\ backend' = r.backend
                     /\ pc' = "ex_transpile"
                     /\ UNCHANGED outcome
                ELSE /\ Finish(Raised("LookupError", <<MsgNoSuchBackend>> \o backend_name.name))
                     /\ UNCHANGED backend
    /\ UNCHANGED <<fn, nested, calls, session, args, circuits, backend_name,
                   queryLocals, jobLocals, out, ensureLog>>

\* get_provider or get_backend raises something that is no QiskitError
ResolveFails ==
    /\ pc = "ex_resolve"
    /\ ops' = ops \o <<Op("get_provider", -1), Op("get_backend", -1)>>
    /\ Finish(Raised("Other", <<MsgRaw>>))
    /\ UNCHANGED <<fn, nested, calls, session, args, circuits, backend_name, backend,
                   queryLocals, jobLocals, out, ensureLog>>

\* transpile(circuits, backend=backend): a list in, a list of as many out
Transpiled(cs, b) == [k \in 1..Len(cs) |-> TranspileOne(cs[k], b)]

Transpile ==
    /\ pc = "ex_transpile"
    /\ ops' = Append(ops, Op("transpile", Len(circuits)))
    /\ circuits' = Transpiled(circuits, backend)
    /\ pc' = "ex_submit"
    /\ UNCHANGED <<fn, nested, calls, session, args, backend_name, backend,
                   queryLocals, jobLocals, out, outcome, ensureLog>>

TranspileFails ==
    /\ pc = "ex_transpile"
    /\ ops' = Append(ops, Op("transpile", Len(circuits)))
    /\ Finish(Raised("Other", <<MsgRaw>>))
    /\ UNCHANGED <<fn, nested, calls, session, args, circuits, backend_name, backend,
                   queryLocals, jobLocals, out, ensureLog>>

\* the line printed when the execution is split
SplitLinesFromOne(num_of_jobs) ==
    IF num_of_jobs >= 1 THEN <<[msg |-> "split", n |-> num_of_jobs]>> ELSE <<>>

SplitLines(num_of_jobs) ==
    IF num_of_jobs >= 2 THEN <<[msg |-> "split", n |-> num_of_jobs]>> ELSE <<>>

\* whether job_monitor is called
Monitored(monitor, num_of_jobs) == monitor /\ num_of_jobs >= 1

\* IBMQJobManager().run(circuits, ...): the job set comes back with its jobs
\* queued; the split message is printed for two jobs or more
Submit ==
    /\ pc = "ex_submit"
    /\ ops' = Append(ops, Op("run", Len(circuits)))
    /\ \E js \in JobSetsFor(Len(circuits)) :
          /\ job_set' = [k \in 1..Len(js) |-> [size |-> js[k], status |-> "QUEUED"]]
          /\ out' = out \o SplitLines(Len(js))
          /\ pc' = IF Monitored(args.monitor, Len(js)) THEN "ex_monitor" ELSE "ex_results"
    /\ UNCHANGED <<fn, nested, calls, session, args, circuits, backend_name, backend,
                   queryLocals, avail, hists, i, outcome, ensureLog>>

SubmitFails ==
    /\ pc = "ex_submit"
    /\ ops' = Append(ops, Op("run", Len(circuits)))
    /\ Finish(Raised("Other", <<MsgRaw>>))
    /\ UNCHANGED <<fn, nested, calls, session, args, circuits, backend_name, backend,
                   queryLocals, jobLocals, out, ensureLog>>

\* the remote service moves a job: QUEUED -> RUNNING -> DONE, ERROR or
\* CANCELLED (a queued job may also end without running)
JobStep(j) ==
    /\ pc \in {"ex_monitor", "ex_results"}
    /\ job_set[j].status \notin TerminalStates
    /\ \E st \in (IF job_set[j].status = "QUEUED" THEN {"RUNNING"} ELSE {"DONE"})
                    \cup {"ERROR", "CANCELLED"} :
          job_set' = [job_set EXCEPT ![j].status = st]
    /\ UNCHANGED <<pc, fn, nested, calls, session, args, circuits, backend_name, backend,
                   queryLocals, avail, hists, i, out, ops, outcome, ensureLog>>

RemoteStep == \E j \in 1..Len(job_set) : JobStep(j)

\* the handle job_monitor is given: job_set.jobs()[-1]
MonitoredHandleFirst(js) == 1

MonitoredHandle(js) == Len(js)

\* job_monitor(job_set.jobs()[-1]) returns once that job has ended; the call is
\* logged with the position of the handle in the job set
Monitor ==
    /\ pc = "ex_monitor"
    /\ job_set[MonitoredHandle(job_set)].status \in TerminalStates
    /\ ops' = Append(ops, Op("job_monitor", MonitoredHandle(job_set)))
    /\ pc' = "ex_results"
    /\ UNCHANGED <<fn, nested, calls, session, args, circuits, backend_name, backend,
                   queryLocals, jobLocals, out, outcome, ensureLog>>

\* the first experiment (0-based) of job j, and the job of experiment e
RECURSIVE JobStart(_, _)
JobStart(js, j) == IF j = 1 THEN 0 ELSE JobStart(js, j - 1) + js[j - 1].size

JobOf(js, e) ==
    CHOOSE j \in 1..Len(js) : JobStart(js, j) <= e /\ e < JobStart(js, j) + js[j].size

\* the sets of experiments the managed results may hold data for: none of a
\* job that did not end DONE
AvailSets(js, n) ==
    {a \in SUBSET (0..n - 1) : \A e \in a : js[JobOf(js, e)].status = "DONE"}

\* what job_set.results() waits for: every job of the set has ended, whether
\* it succeeded or not
AllSucceeded(js) == \A j \in 1..Len(js) : js[j].status = "DONE"

AllEnded(js) == \A j \in 1..Len(js) : js[j].status \in TerminalStates

\* job_set.results() returns once every job has ended; an empty list of
\* circuits then returns an empty list of results
Results ==
    /\ pc = "ex_results"
    /\ AllEnded(job_set)
    /\ ops' = Append(ops, Op("results", -1))
    /\ \E a \in AvailSets(job_set, Len(circuits)) : avail' = a
    /\ IF Len(circuits) = 0
       THEN Finish(Returned(<<>>, <<>>))
       ELSE pc' = "ex_fetch" /\ UNCHANGED outcome
    /\ UNCHANGED <<fn, nested, calls, session, args, circuits, backend_name, backend,
                   queryLocals, job_set, hists, i, out, ensureLog>>

\* job_set.results() raises: nothing catches it (a call that raised an
\* exception the code does not name is logged with an entry "error")
ResultsFails ==
    /\ pc = "ex_results"
    /\ ops' = ops \o <<Op("results", -1), Op("error", -1)>>
    /\ Finish(Raised("Other", <<MsgRaw>>))
    /\ UNCHANGED <<fn, nested, calls, session, args, circuits, backend_name, backend,
                   queryLocals, jobLocals, out, ensureLog>>

\* one turn of the loop: hists and the printed lines after results.get_counts(i)
\* returned (available) or raised IBMQManagedResultDataNotAvailable
CollectedDropsUnavailable(h, cs, k, available) ==
    IF available THEN Append(h, CountsOf(cs, k)) ELSE h

CollectedPrepends(h, cs, k, available) ==
    IF available THEN <<CountsOf(cs, k)>> \o h ELSE <<NoneValue>> \o h

Collected(h, cs, k, available) ==
    IF available THEN Append(h, CountsOf(cs, k)) ELSE Append(h, NoneValue)

DiagnosticsSilent(k, available) == <<>>

Diagnostics(k, available) ==
    IF available THEN <<>> ELSE <<[msg |-> "not_found", n |-> k]>>

\* the exceptions of get_counts the loop catches: the except clause names one
AbsorbedAny(exc) == TRUE

Absorbed(exc) == exc = "IBMQManagedResultDataNotAvailable"

\* what get_counts(k) answers when nothing else goes wrong
Answer(k, available) ==
    IF k \in available THEN "counts" ELSE "IBMQManagedResultDataNotAvailable"

\* one turn of the loop, get_counts(i) answering with counts or an exception
FetchTurn(answer) ==
    /\ pc = "ex_fetch"
    /\ ops' = ops \o <<Op("get_counts", i)>>
                  \o (IF answer \in {"counts", "IBMQManagedResultDataNotAvailable"}
                      THEN <<>> ELSE <<Op("error", i)>>)
    /\ IF answer = "counts" \/ Absorbed(answer)
       THEN /\ hists' = Collected(hists, circuits, i, answer = "counts")
            /\ out' = out \o Diagnostics(i, answer = "counts")
            /\ IF i + 1 < Len(circuits)
               THEN /\ i' = i + 1
                    /\ UNCHANGED <<pc, outcome>>
               ELSE /\ Finish(Returned(hists', <<>>))
                    /\ UNCHANGED i
       ELSE /\ Finish(Raised(answer, <<MsgRaw>>))
            /\ UNCHANGED <<hists, i, out>>
    /\ UNCHANGED <<fn, nested, calls, session, args, circuits, backend_name, backend,
                   queryLocals, job_set, avail, ensureLog>>

Fetch == FetchTurn(Answer(i, avail))

\* results.get_counts(i) raises anything else: it is not caught
FetchFails == FetchTurn("Other")

Next ==
    \/ CallerContinues
    \/ ExecuteCall
    \/ QueryCall
    \/ AccountReused
    \/ AccountLoaded
    \/ AccountFailed
    \/ ProviderFails
    \/ BackendsFails
    \/ BackendsListed
    \/ Worker
    \/ PoolJoin
    \/ PromptDeclined
    \/ PromptChosen
    \/ Resolve
    \/ ResolveFails
    \/ Transpile
    \/ TranspileFails
    \/ Submit
    \/ SubmitFails
    \/ RemoteStep
    \/ Monitor
    \/ Results
    \/ ResultsFails
    \/ Fetch
    \/ FetchFails

Spec == Init /\ [][Next]_vars

\* the remote service and the blocking calls keep going: a job that has not
\* ended moves on, job_monitor returns once the job it watches has ended,
\* job_set.results() is answered once every job has ended and
\* results.get_counts(i) is answered (unless the call raises before)
Fairness ==
    /\ WF_vars(RemoteStep)
    /\ WF_vars(Monitor)
    /\ WF_vars(Results)
    /\ WF_vars(Fetch)

FairSpec == Init /\ [][Next]_vars /\ Fairness

\* ------------------------------------------------------------- claims
\* the call of execute_jobs has returned a value / has ended
ExecuteReturned == pc = "done" /\ fn = "execute_jobs" /\ outcome.kind = "returned"

ExecuteEnded == pc = "done" /\ fn = "execute_jobs"

\* the work items the caller passed, in order
WorkItems == args.circuits.cs

\* how often the call has made the call o on a collaborator
OpCount(o) == Cardinality({k \in 1..Len(ops) : ops[k].op = o})

\* the lines printed for experiment e
DiagnosticCount(e) ==
    Cardinality({k \in 1..Len(out) : out[k] = [msg |-> "not_found", n |-> e]})

\* the experiments reported as not available
Unavailable == (0..Len(WorkItems) - 1) \ avail

\* C1: every call of execute_jobs that returns hands back as many results as
\* there were work items, whichever results were unavailable and however many
\* jobs the batch was split into.
C1_LengthPreserved ==
    ExecuteReturned => Len(outcome.hists) = Len(WorkItems)

C1_Witness ==
    /\ ExecuteReturned
    /\ Len(WorkItems) = 2
    /\ Len(job_set) = 2
    /\ Unavailable = {1}
    /\ Len(outcome.hists) = 2

\* C2: the i-th result returned is the result of the i-th work item: a
\* histogram at position i is the histogram of experiment i, which is the
\* transpiled i-th circuit passed in, and a marker at position i means that
\* experiment i was the unavailable one.
C2_OrderPreserved ==
    ExecuteReturned =>
        /\ Len(outcome.hists) = Len(WorkItems)
        /\ \A k \in 1..Len(outcome.hists) :
              IF outcome.hists[k].kind = "dict"
              THEN /\ outcome.hists[k].exp = k - 1
                   /\ outcome.hists[k].of = TranspileOne(WorkItems[k], backend)
              ELSE (k - 1) \in Unavailable

C2_Witness ==
    /\ ExecuteReturned
    /\ Len(WorkItems) = 2
    /\ WorkItems[1].circ = "c1" /\ WorkItems[2].circ = "c2"
    /\ Len(job_set) = 2
    /\ job_set[1].status = "DONE" /\ job_set[2].status = "DONE"
    /\ outcome.hists[1].kind = "dict"
    /\ outcome.hists[2].kind = "dict"
    /\ outcome.hists[1] # outcome.hists[2]

\* C3: the marker stands at exactly the unavailable indices, the fetched
\* histogram at every other index, and exactly one diagnostic line is printed
\* for each unavailable index and none for the others.
C3_FailureContained ==
    ExecuteReturned =>
        /\ Len(outcome.hists) = Len(WorkItems)
        /\ \A e \in 0..Len(WorkItems) - 1 :
              /\ e \in Unavailable => outcome.hists[e + 1] = NoneValue
              /\ e \notin Unavailable => outcome.hists[e + 1] = CountsOf(circuits, e)
              /\ DiagnosticCount(e) = (IF e \in Unavailable THEN 1 ELSE 0)
        /\ \A k \in 1..Len(out) :
              out[k].msg = "not_found" => out[k].n \in Unavailable

C3_Witness ==
    /\ ExecuteReturned
    /\ Len(WorkItems) = 2
    /\ Unavailable = {0}
    /\ outcome.hists[1] = NoneValue
    /\ outcome.hists[2].kind = "dict"
    /\ DiagnosticCount(0) = 1

\* a backend without detailed capability metadata: the directory tags it with
\* the simulated marker
LacksCapabilities(b) == ~(b.has_properties /\ b.has_basis_gates)

\* the backends enumerated that are to be shown to the chooser
ShownBackends ==
    {k \in 1..Len(directory) : ~(args.hide_simulated /\ LacksCapabilities(directory[k]))}

\* C4: with hide_simulated=True no descriptor of a backend tagged simulated is
\* shown to the chooser and no such backend's name is returned; of two
\* descriptors, one of them simulated, one is shown with hide_simulated=True
\* and two with hide_simulated=False.
C4_FilteringLaw ==
    /\ (pc = "q_prompt" /\ args.hide_simulated) =>
          \A k \in 1..Len(directory) :
              LacksCapabilities(directory[k]) =>
                  _get_backend_info(directory[k]) \notin Range(choices)
    /\ (pc = "done" /\ fn = "query_backend_name" /\ outcome.kind = "returned"
            /\ args.hide_simulated) =>
          \A k \in 1..Len(directory) :
              LacksCapabilities(directory[k]) => outcome.name # directory[k].name
    /\ (pc = "q_prompt" /\ Len(directory) = 2
            /\ Cardinality({k \in 1..2 : LacksCapabilities(directory[k])}) = 1) =>
          Len(choices) = (IF args.hide_simulated THEN 1 ELSE 2)

\* the account step of the call of execute_jobs that is running or has ended
AccountStep == ensureLog[Len(ensureLog)]

PastAccountStep == fn = "execute_jobs" /\ pc \notin {"idle", "ex_account"}

\* C5: a call of execute_jobs that starts with an account loaded and does not
\* force a reload never calls load_account and keeps the account; one that
\* forces a reload calls load_account exactly once.
C5_SessionReuse ==
    (PastAccountStep /\ AccountStep.before # 0) =>
        IF args.force_account_reload
        THEN OpCount("load_account") = 1
        ELSE OpCount("load_account") = 0 /\ session = AccountStep.before

C5_Witness ==
    /\ ExecuteReturned
    /\ calls = 2
    /\ ~args.force_account_reload
    /\ Len(ensureLog) = 2
    /\ ensureLog[1].result = "ok"
    /\ ensureLog[2].result = "reused"
    /\ session = ensureLog[1].after
    /\ Len(outcome.hists) >= 1

\* two account steps in a row, neither forcing a reload
TwoUnforcedSteps ==
    /\ Len(ensureLog) = 2
    /\ ~ensureLog[1].force
    /\ ~ensureLog[2].force

\* C6 as stated: two account steps in a row without forced reload call
\* load_account at most once in total, whatever the outcome of the first.
C6_AtMostOnce ==
    TwoUnforcedSteps => ensureLog[1].attempts + ensureLog[2].attempts <= 1

\* C6 as amended: two account steps in a row without forced reload call
\* load_account at most once in total when the first one ends with an account
\* loaded; when the load of the first one fails, each of the two calls
\* load_account once.
C6_AtMostOnceUnlessFailed ==
    /\ PastAccountStep => OpCount("load_account") = AccountStep.attempts
    /\ TwoUnforcedSteps =>
          IF ensureLog[1].result \in {"ok", "reused"}
          THEN ensureLog[1].attempts + ensureLog[2].attempts <= 1
          ELSE ensureLog[1].attempts = 1 /\ ensureLog[2].attempts = 1

C6_Witness ==
    /\ TwoUnforcedSteps
    /\ ensureLog[1].before = 0
    /\ ensureLog[1].result = "IBMQAccountError"
    /\ ensureLog[2].result = "ok"
    /\ pc = "ex_resolve"
    /\ OpCount("load_account") = 1

\* C7: when load_account fails in execute_jobs, the call raises an error whose
\* message holds both steps that might solve it, load_account was called once,
\* no account is newly loaded and nothing else was called.
C7_AuthFailure ==
    (ExecuteEnded /\ AccountStep.result \in {"IBMQAccountError", "Other"}) =>
        /\ outcome.kind = "raised"
        /\ {MsgRegister, MsgSaveAccount} \subseteq Range(outcome.msg)
        /\ ops = <<Op("load_account", -1)>>
        /\ session \in {0, AccountStep.before}
        /\ job_set = <<>>

\* a LookupError raised by the selection
SelectionFailed ==
    /\ pc = "done"
    /\ outcome.kind = "raised"
    /\ outcome.exc = "LookupError"
    /\ outcome.msg \in {<<MsgNoActiveBackend>>, <<MsgMustChoose>>}

\* C8: the selection fails with LookupError exactly when nothing is left to
\* show after the simulated backends are hidden (the chooser is then never
\* shown) or the operator declines; the chooser is shown at most once, and
\* nothing is compiled or submitted after the failure.
C8_SelectionFailure ==
    /\ pc = "q_prompt" => ShownBackends # {}
    /\ OpCount("buttonbox") <= 1
    /\ SelectionFailed =>
          \/ ShownBackends = {} /\ OpCount("buttonbox") = 0
          \/ ShownBackends # {} /\ OpCount("buttonbox") = 1
    /\ SelectionFailed => OpCount("transpile") = 0 /\ OpCount("run") = 0 /\ job_set = <<>>

\* C9: when the provider does not know the backend name, execute_jobs raises
\* LookupError and nothing was compiled or submitted: no remote job exists.
C9_UnknownBackend ==
    (fn = "execute_jobs" /\ Op("get_backend", 0) \in Range(ops)) =>
        /\ pc = "done"
        /\ outcome = Raised("LookupError", <<MsgNoSuchBackend>> \o backend_name.name)
        /\ OpCount("transpile") = 0
        /\ OpCount("run") = 0
        /\ job_set = <<>>

C9_Witness ==
    /\ ExecuteEnded
    /\ Op("get_backend", 0) \in Range(ops)
    /\ args.backend_name = NoName
    /\ backend_name.name = <<"a">>
    /\ outcome.exc = "LookupError"

\* the call of execute_jobs has submitted its batch and has gone past the
\* monitoring step
PastMonitorStep ==
    fn = "execute_jobs" /\ OpCount("run") = 1 /\ pc \in {"ex_results", "ex_fetch", "done"}
        /\ ~(pc = "done" /\ OpCount("results") = 0)

\* C11: job_monitor is called at most once in a call and only on the last
\* handle of the job set; once the call is past the monitoring step it has been
\* called exactly when monitor is set and the job set holds a job; a job set
\* without jobs is not monitored and the call goes on to job_set.results().
C11_MonitorScope ==
    /\ OpCount("job_monitor") <= 1
    /\ \A k \in 1..Len(ops) :
          ops[k].op = "job_monitor" => Len(job_set) >= 1 /\ ops[k].arg = Len(job_set)
    /\ PastMonitorStep =>
          OpCount("job_monitor") = (IF args.monitor /\ Len(job_set) >= 1 THEN 1 ELSE 0)
    /\ (fn = "execute_jobs" /\ OpCount("run") = 1 /\ job_set = <<>> /\ pc # "done") =>
          pc = "ex_results"

C11_Witness ==
    /\ ExecuteReturned
    /\ args.monitor
    /\ Len(job_set) = 2
    /\ Op("job_monitor", 2) \in Range(ops)
    /\ OpCount("job_monitor") = 1

\* the step of the protocol a call on a collaborator belongs to: 1 account,
\* 2 selection, 3 resolution, 4 compilation, 5 submission, 6 monitoring,
\* 7 and 8 collection (0: get_provider, made by selection and by resolution,
\* and the entries that log an exception)
Stage(o) ==
    CASE o = "load_account" -> 1
      [] o \in {"backends", "Pool", "buttonbox"} -> 2
      [] o = "get_backend" -> 3
      [] o = "transpile" -> 4
      [] o = "run" -> 5
      [] o = "job_monitor" -> 6
      [] o = "results" -> 7
      [] o = "get_counts" -> 8
      [] OTHER -> 0

\* C12: the calls execute_jobs makes follow the order account, selection and
\* resolution, compilation, submission, monitoring, collection, each step made
\* once and only after the one before it succeeded: nothing is resolved without
\* an account, compiled without a resolved backend, submitted without compiled
\* circuits, and no result is asked for before the batch was submitted and,
\* when it is monitored, before job_monitor returned for its last job.
C12_ProtocolOrder ==
    fn = "execute_jobs" =>
        /\ \A j \in 1..Len(ops) : \A k \in j + 1..Len(ops) :
              (Stage(ops[j].op) > 0 /\ Stage(ops[k].op) > 0) =>
                  Stage(ops[j].op) <= Stage(ops[k].op)
        /\ \A o \in {"load_account", "get_backend", "transpile", "run", "job_monitor", "results"} :
              OpCount(o) <= 1
        /\ (\E k \in 1..Len(ops) : Stage(ops[k].op) >= 2) =>
              /\ PastAccountStep
              /\ AccountStep.result \in {"ok", "reused"}
              /\ session # 0
        /\ (OpCount("get_backend") = 1 /\ ~args.backend_name.given) =>
              \E k \in 1..Len(ops) : ops[k].op = "buttonbox" /\ ops[k].arg >= 1
        /\ OpCount("transpile") = 1 =>
              Op("get_backend", 1) \in Range(ops) /\ backend # NoBackend
        /\ OpCount("run") = 1 =>
              OpCount("transpile") = 1 /\ circuits = Transpiled(WorkItems, backend)
        /\ OpCount("job_monitor") = 1 => OpCount("run") = 1 /\ job_set # <<>>
        /\ OpCount("results") = 1 =>
              /\ OpCount("run") = 1
              /\ Len(WorkItems) >= 1 => job_set # <<>>
              /\ (args.monitor /\ job_set # <<>>) =>
                    /\ OpCount("job_monitor") = 1
                    /\ job_set[Len(job_set)].status \in TerminalStates
        /\ OpCount("get_counts") >= 1 => OpCount("results") = 1

C12_Witness ==
    /\ ExecuteReturned
    /\ ops = <<Op("load_account", -1),
               Op("get_provider", -1), Op("backends", -1), Op("Pool", -1), Op("buttonbox", 1),
               Op("get_provider", -1), Op("get_backend", 1),
               Op("transpile", 1), Op("run", 1), Op("job_monitor", 1),
               Op("results", -1), Op("get_counts", 0)>>

\* the split messages printed by the call
SplitMessages == {k \in 1..Len(out) : out[k].msg = "split"}

\* C13: the split message is printed exactly when the job set holds two jobs
\* or more, once, and it tells the number of jobs of the job set; it is never
\* printed for a job set of no job or of one job.
C13_SplitNotice ==
    fn = "execute_jobs" =>
        /\ Cardinality(SplitMessages) = (IF Len(job_set) >= 2 THEN 1 ELSE 0)
        /\ \A k \in SplitMessages : out[k].n = Len(job_set)

C13_Witness ==
    /\ ExecuteReturned
    /\ Len(WorkItems) = 2
    /\ Len(job_set) = 2
    /\ out[1] = [msg |-> "split", n |-> 2]
    /\ Cardinality(SplitMessages) = 1

\* a call of execute_jobs that was given a backend name
NameSupplied == fn = "execute_jobs" /\ pc # "idle" /\ args.backend_name.given

\* C14: a call of execute_jobs that is given a backend name does nothing of
\* the selection, whatever hide_simulated is: provider.backends() is not
\* called, no pool is made, no task is run, the chooser is not shown, and the
\* name resolved is the name given.
C14_DirectNameBypass ==
    NameSupplied =>
        /\ OpCount("backends") = 0
        /\ OpCount("Pool") = 0
        /\ OpCount("buttonbox") = 0
        /\ pc \notin {"q_provider", "q_pool", "q_prompt"}
        /\ directory = <<>> /\ pool = <<>> /\ choices = <<>>
        /\ backend_name = args.backend_name

C14_Witness ==
    /\ NameSupplied
    /\ ExecuteReturned
    /\ args.hide_simulated
    /\ Op("get_backend", 1) \in Range(ops)
    /\ Len(outcome.hists) = 2

\* the descriptors of the backends enumerated, in the order of enumeration
Descriptors == [k \in 1..Len(directory) |-> _get_backend_info(directory[k])]

\* a worker of the running query has failed
SomeWorkerFailed == \E k \in 1..Len(pool) : pool[k].st = "failed"

\* C15: in whatever order the workers end, the chooser is shown only after
\* every one of them has ended with a descriptor; the list then holds one
\* descriptor for each backend enumerated, in the order of enumeration (the
\* choices are that list, filtered); and when a worker fails the query raises,
\* the chooser is not shown and no list of choices is made.
C15_AllCompleteOrFail ==
    /\ (pc = "q_prompt" \/ (OpCount("buttonbox") >= 1 /\ pool # <<>>)) =>
          /\ Len(pool) = Len(directory)
          /\ \A k \in 1..Len(pool) : pool[k].st = "done"
          /\ {pool[k].at : k \in 1..Len(pool)} = 1..Len(pool)
          /\ MapValues(pool) = Descriptors
          /\ choices = FilterChoices(Descriptors, args.hide_simulated)
    /\ SomeWorkerFailed =>
          /\ pc \in {"q_pool", "done"}
          /\ OpCount("buttonbox") = 0
          /\ choices = <<>>
          /\ pc = "done" => outcome = Raised("Other", <<MsgRaw>>)

\* the second worker ended before the first; the choices are in the order of
\* the backends
C15_Witness ==
    /\ pc = "q_prompt"
    /\ Len(directory) = 2
    /\ pool[2].at = 1
    /\ pool[1].at = 2
    /\ choices = <<_get_backend_info(directory[1]), _get_backend_info(directory[2])>>

\* job_set.results() or results.get_counts(i) has raised an exception that is
\* not the one of an experiment without data
CollectionError == \E k \in 1..Len(ops) : ops[k].op = "error"

\* C16: of the failures of the collection only that of an experiment without
\* data is absorbed: it never ends the call, and a call that returns has met
\* no other failure and holds a marker only where the data was not available;
\* any other failure of results() or get_counts(i) ends the call at once with
\* that exception, and nothing of the results collected so far is returned.
C16_CollectionErrors ==
    fn = "execute_jobs" =>
        /\ CollectionError =>
              /\ pc = "done"
              /\ outcome = Raised("Other", <<MsgRaw>>)
              /\ outcome.hists = <<>>
              /\ ops[Len(ops)].op = "error"
              /\ OpCount("error") = 1
        /\ ExecuteReturned =>
              \A k \in 1..Len(outcome.hists) :
                  outcome.hists[k] = NoneValue => (k - 1) \in Unavailable
        /\ (ExecuteEnded /\ OpCount("results") = 1 /\ outcome.kind = "raised") =>
              CollectionError

\* the first experiment had no data, get_counts(1) raised something else: the
\* call raises and the marker collected for the first is not returned
C16_Witness ==
    /\ ExecuteEnded
    /\ Len(WorkItems) = 2
    /\ hists = <<NoneValue>>
    /\ ops[Len(ops)] = Op("error", 1)
    /\ outcome.kind = "raised"
    /\ outcome.hists = <<>>

\* the descriptor of a backend tagged simulated, and of one with capabilities
SimulatedDescriptor(b) ==
    b.name \o <<NL, NL>> \o IntToStr(b.pending_jobs) \o S_queued \o <<NL>>
           \o S_simulated \o S_qubits \o <<NL>>

CapableDescriptor(b) ==
    b.name \o <<NL, NL>> \o IntToStr(b.pending_jobs) \o S_queued \o <<NL>>
           \o IntToStr(b.qubits) \o S_qubits \o <<NL>>
           \o JoinSpace(SortedLen(SortedLex(b.basis_gates)))

\* C17: a worker given a backend whose qubit query or whose capability-tag
\* query raises AttributeError ends with a descriptor all the same, and that
\* descriptor holds the simulated marker for the qubit count together with no
\* tags: never a qubit count without tags, never the marker with tags; a
\* query that raises something else than LookupError once the pool is made
\* had a worker fail for another reason.
C17_CapabilityDegradation ==
    /\ \A k \in 1..Len(pool) :
          pool[k].st = "done" =>
              pool[k].value = (IF LacksCapabilities(directory[k])
                               THEN SimulatedDescriptor(directory[k])
                               ELSE CapableDescriptor(directory[k]))
    /\ (pc = "done" /\ pool # <<>> /\ ~SomeWorkerFailed) =>
          outcome.exc # "Other"

\* a backend with a qubit count of 1 whose configuration has no basis_gates,
\* and a backend without properties: both shown as simulated
C17_Witness ==
    /\ pc = "q_prompt"
    /\ directory = <<BackendNoGates, BackendSim>>
    /\ choices = <<SimulatedDescriptor(BackendNoGates), SimulatedDescriptor(BackendSim)>>
    /\ BackendNoGates.has_properties /\ ~BackendNoGates.has_basis_gates

\* the chooser has answered with the choice at position c
Chose(c) == c >= 1 /\ ops[Len(ops)] = Op("buttonbox", c)

\* C18: when the chooser answers with the descriptor of a backend whose name
\* holds no line break, query_backend_name returns that name (to its caller,
\* or to execute_jobs, which resolves it), whatever the queue depth, the qubit
\* count and the tags of the backend are.
C18_SelectionRoundTrip ==
    [][(pc = "q_prompt" /\ pc' \in {"done", "ex_resolve"}) =>
          \A c \in 1..Len(choices) : \A k \in 1..Len(directory) :
              (ops' = Append(ops, Op("buttonbox", c))
                    /\ choices[c] = _get_backend_info(directory[k])
                    /\ NL \notin Range(directory[k].name)) =>
                  IF nested
                  THEN pc' = "ex_resolve" /\ backend_name' = [given |-> TRUE, name |-> directory[k].name]
                  ELSE outcome' = Returned(<<>>, directory[k].name)]_vars

\* of a backend whose name holds a line break and backend "a" (12 queued, 5
\* qubits, 4 tags), the second was chosen and "a" is returned
C18_Witness ==
    /\ pc = "done" /\ fn = "query_backend_name" /\ outcome.kind = "returned"
    /\ directory = <<BackendBreak, BackendA>>
    /\ Chose(2)
    /\ choices[2] = _get_backend_info(BackendA)
    /\ outcome.name = BackendA.name

\* the running call has asked IBMQ for the provider / the provider for its
\* backends (the account does not change once a call is past its account step)
ReachedProvider == OpCount("get_provider") >= 1

\* C19: a call reaches the provider, and queries the directory of backends,
\* only while an account is loaded: no entry point asks for the provider with
\* no account.
C19_SessionBeforeDirectory ==
    ReachedProvider => session # 0

\* the call of execute_jobs has submitted its batch and has not ended
PastSubmission == fn = "execute_jobs" /\ pc \in {"ex_monitor", "ex_results", "ex_fetch"}

\* a step that changes the job set is the submission, the caller going on
\* after the call, or a step of the remote service in which the client calls
\* nothing and a job that had not ended changes its status
JobsLeftToService ==
    \/ job_set' = job_set
    \/ pc = "ex_submit" /\ job_set = <<>>
    \/ pc = "done" /\ pc' = "idle"
    \/ /\ pc' = pc
       /\ ops' = ops
       /\ Len(job_set') = Len(job_set)
       /\ \A j \in 1..Len(job_set) :
             job_set'[j] # job_set[j] =>
                 /\ job_set[j].status \notin TerminalStates
                 /\ job_set'[j].size = job_set[j].size

\* C20: when every job ends and every request for results is answered, a call
\* of execute_jobs that has submitted its batch ends: it returns or raises;
\* the client submits once, changes no job itself, and returns only when every
\* job of the batch has ended.
C20_EventualCompletion ==
    /\ PastSubmission ~> ExecuteEnded
    /\ [][JobsLeftToService]_vars
    /\ [](OpCount("run") <= 1)
    /\ [](ExecuteReturned =>
            \A j \in 1..Len(job_set) : job_set[j].status \in {"DONE", "ERROR", "CANCELLED"})

C20_Witness ==
    /\ ExecuteReturned
    /\ args.monitor
    /\ Len(job_set) = 2
    /\ job_set[1].status = "ERROR"
    /\ job_set[2].status = "DONE"
    /\ Len(outcome.hists) = 2

====
